---- MODULE Spec2Model ----
(***************************************************************************)
(* A model of the ticket-reference dispatch of weaselp/ticketbot:          *)
(* tickethelpers.py (BaseProvider and its subclasses) with three of the    *)
(* providers and the channel bindings of ticketconfig.py.                  *)
(*                                                                         *)
(* Text is modelled at character level: a channel name, a glob, a message  *)
(* and a captured group are sequences of one-character strings.  The       *)
(* result of re.findall is a sequence of matches, each match the tuple of  *)
(* its captured groups (Python hands back the bare string when the pattern *)
(* has one group; the model keeps the one-element tuple).                  *)
(***************************************************************************)
EXTENDS Integers, Sequences, FiniteSets, TLC

VARIABLES
    channels,   \* channels[p]: BaseProvider.channels, in insertion order
    lastSent,   \* lastSent[p]: BaseProvider.lastSent, (tgt, m) -> timestamp
    now,        \* the value time.time() returns
    handled,    \* number of doPrivmsg calls made so far
    hist,       \* history: per (p, tgt, m) the last reply, the drops since
    last,       \* the last doPrivmsg call: its arguments and what its caller saw
    item,       \* the last provider[ticketnumber]: its inputs and its result
    data,       \* TorProposalProvider.data
    expire,     \* TorProposalProvider.expire
    refresh     \* history: the fetches of the proposal index

vars == <<channels, lastSent, now, handled, hist, last, item, data, expire, refresh>>

\* what doPrivmsg and addChannel leave alone
titleVars == <<item>>
proposalVars == <<data, expire, refresh>>
\* what provider[ticketnumber] and the proposal provider leave alone
privmsgVars == <<channels, lastSent, handled, hist, last>>

-----------------------------------------------------------------------------
(* Bounds of the model.                                                    *)

\* doPrivmsg calls in one run
MaxCalls == 3
\* bindings registered by addChannel in one run of SpecOneMessage
MaxBindings == 2
\* the clock stops here
MaxClock == 1802
\* lookups of the proposal provider in one run of SpecProposal
MaxLookups == 3
\* the clock of SpecProposal stops here
MaxProposalClock == 10862

-----------------------------------------------------------------------------
(* Optional values: Python's None and a present value.                     *)

None == <<>>
Some(x) == <<x>>

-----------------------------------------------------------------------------
(* Characters.                                                             *)

Digits == {"0","1","2","3","4","5","6","7","8","9"}
LowerCase == <<"a","b","c","d","e","f","g","h","i","j","k","l","m",
               "n","o","p","q","r","s","t","u","v","w","x","y","z">>
UpperCase == <<"A","B","C","D","E","F","G","H","I","J","K","L","M",
               "N","O","P","Q","R","S","T","U","V","W","X","Y","Z">>

\* \w of Python's re on the characters used here
WordChars ==
    Digits \cup {LowerCase[i] : i \in DOMAIN LowerCase}
           \cup {UpperCase[i] : i \in DOMAIN UpperCase} \cup {"_"}

\* case folding, as (?i) applies it
Fold(c) ==
    IF \E i \in DOMAIN UpperCase : UpperCase[i] = c
    THEN LowerCase[CHOOSE i \in DOMAIN UpperCase : UpperCase[i] = c]
    ELSE c

FoldSeq(s) == [i \in DOMAIN s |-> Fold(s[i])]

-----------------------------------------------------------------------------
(* Regular expressions.  Every pattern modelled has the shape              *)
(*   (?<!\w) HEAD ([0-9]{min,}) (?:(?=\W)|$)                               *)
(* where HEAD is an alternation of literal texts (alts), read without      *)
(* regard to case under (?i) (ci), or, for the composite pattern, the      *)
(* group ([\w/]+) followed by "#" (path).                                  *)

\* BaseProvider.defaultRE = '(?<!\w)#([0-9]{4,})(?:(?=\W)|$)'
defaultRE == [alts |-> {<<"#">>}, ci |-> FALSE, min |-> 4, path |-> FALSE]

\* r'(?i)(?<!\w)'+self.prefix+r'#([0-9]{2,})(?:(?=\W)|$)'
PrefixRE(pre) ==
    [alts |-> {pre \o <<"#">>}, ci |-> TRUE, min |-> 2, path |-> FALSE]

\* default_re of bugs.debian.org:
\* (?i)(?<!\w)(?:Deb(?:ian)?#|bug#|https?://bugs.debian.org/
\*   |https://bugs.debian.org/cgi-bin/bugreport.cgi\?bug=)([0-9]{3,})(?:(?=\W)|$)
DebianRE ==
    [alts |-> {<<"d","e","b","#">>, <<"d","e","b","i","a","n","#">>, <<"b","u","g","#">>,
               <<"h","t","t","p",":","/","/","b","u","g","s",".","d","e","b",
                 "i","a","n",".","o","r","g","/">>,
               <<"h","t","t","p","s",":","/","/","b","u","g","s",".","d","e",
                 "b","i","a","n",".","o","r","g","/">>,
               <<"h","t","t","p","s",":","/","/","b","u","g","s",".","d","e",
                 "b","i","a","n",".","o","r","g","/","c","g","i","-","b","i",
                 "n","/","b","u","g","r","e","p","o","r","t",".","c","g","i",
                 "?","b","u","g","=">>},
     ci |-> TRUE, min |-> 3, path |-> FALSE]

\* bugs.debian.org in #munin: '(?<!\w)[dD]#([0-9]{4,})(?:(?=\W)|$)'
DebianShortRE ==
    [alts |-> {<<"d","#">>, <<"D","#">>}, ci |-> FALSE, min |-> 4, path |-> FALSE]

\* rt.debian.org: '(?<!\w)RT#([0-9]+)(?:(?=\W)|$)'
RtRE == [alts |-> {<<"R","T","#">>}, ci |-> FALSE, min |-> 1, path |-> FALSE]

\* the (path, number) pattern meant for gitlab.torproject.org,
\* (?<!\w)([\w/]+)#([0-9]{4,})(?:(?=\W)|$).  (The literal of ticketconfig.py
\* writes the groups as (?<path>...) inside one more group and leaves a
\* parenthesis open; re.findall rejects it.)
GitlabRE == [alts |-> {}, ci |-> FALSE, min |-> 4, path |-> TRUE]

\* length of the longest run of characters of set cs in s from position i
RECURSIVE RunLen(_, _, _)
RunLen(s, i, cs) ==
    IF i <= Len(s) /\ s[i] \in cs THEN 1 + RunLen(s, i + 1, cs) ELSE 0

\* whether literal text a stands in s at position i
LitAt(s, i, a, ci) ==
    /\ i + Len(a) - 1 <= Len(s)
    /\ LET t == SubSeq(s, i, i + Len(a) - 1)
       IN  IF ci THEN FoldSeq(t) = FoldSeq(a) ELSE t = a

\* the tail shared by all patterns, at position j: ([0-9]{min,})(?:(?=\W)|$);
\* the greedy group takes the whole run of digits, and giving digits back
\* never helps, since the next character would be a digit, hence \w
NumberAt(re, s, j) ==
    LET d == RunLen(s, j, Digits)
    IN  [ok  |-> /\ d >= re.min
                 /\ (j + d > Len(s) \/ s[j + d] \notin WordChars),
         end |-> j + d,
         num |-> SubSeq(s, j, j + d - 1)]

\* one match attempt at position i: [ok, end, groups]
MatchAt(re, s, i) ==
    IF i > 1 /\ s[i - 1] \in WordChars        \* (?<!\w)
    THEN [ok |-> FALSE, end |-> i, groups |-> <<>>]
    ELSE IF re.path
    THEN LET r == RunLen(s, i, WordChars \cup {"/"})
             n == NumberAt(re, s, i + r + 1)
         IN  IF r >= 1 /\ i + r <= Len(s) /\ s[i + r] = "#" /\ n.ok
             THEN [ok |-> TRUE, end |-> n.end,
                   groups |-> <<SubSeq(s, i, i + r - 1), n.num>>]
             ELSE [ok |-> FALSE, end |-> i, groups |-> <<>>]
    ELSE LET hits == {a \in re.alts :
                        LitAt(s, i, a, re.ci) /\ NumberAt(re, s, i + Len(a)).ok}
         IN  IF hits # {}
             THEN LET a == CHOOSE a \in hits : TRUE
                      n == NumberAt(re, s, i + Len(a))
                  IN  [ok |-> TRUE, end |-> n.end, groups |-> <<n.num>>]
             ELSE [ok |-> FALSE, end |-> i, groups |-> <<>>]

\* the non-overlapping matches of re in s from position i on, left to right
RECURSIVE FindFrom(_, _, _)
FindFrom(re, s, i) ==
    IF i > Len(s) THEN <<>>
    ELSE LET m == MatchAt(re, s, i)
         IN  IF m.ok THEN <<m.groups>> \o FindFrom(re, s, m.end)
             ELSE FindFrom(re, s, i + 1)

\* fnmatch.fnmatch(name, pat) for patterns of literal characters, ? and *
RECURSIVE GlobMatch(_, _)
GlobMatch(name, pat) ==
    IF pat = <<>> THEN name = <<>>
    ELSE IF Head(pat) = "*"
    THEN GlobMatch(name, Tail(pat)) \/ (name # <<>> /\ GlobMatch(Tail(name), pat))
    ELSE /\ name # <<>>
         /\ (Head(pat) = "?" \/ Head(pat) = Head(name))
         /\ GlobMatch(Tail(name), Tail(pat))

-----------------------------------------------------------------------------
(* The texts of the model.                                                 *)

\* targets (channel names)
Chan_generic == <<"#","g","e","n","e","r","i","c">>
Chan_debian_devel == <<"#","d","e","b","i","a","n","-","d","e","v","e","l">>
Targets == {Chan_generic, Chan_debian_devel}

\* channel globs handed to addChannel
Glob_generic == <<"#","g","e","n","e","r","i","c">>
Glob_deb == <<"#","d","e","b","*">>
Glob_debian == <<"#","d","e","b","i","a","n","-","*">>
Glob_munin == <<"#","m","u","n","i","n">>
Glob_pbuilder == <<"#","p","b","u","i","l","d","e","r">>
Glob_devscripts == <<"#","d","e","v","s","c","r","i","p","t","s">>
Glob_reproducible_builds == <<"#","r","e","p","r","o","d","u","c","i","b","l","e","-","b","u","i",
      "l","d","s">>
Glob_ooni == <<"#","o","o","n","i">>
Glob_nottor == <<"#","n","o","t","t","o","r">>
Glob_tor == <<"#","t","o","r","*">>
\* the globs addChannel is tried with in SpecOneMessage
Globs == {Glob_generic, Glob_deb, Glob_debian}
AllGlobs ==
    Globs \cup {Glob_munin, Glob_pbuilder, Glob_devscripts,
                Glob_reproducible_builds, Glob_ooni, Glob_nottor, Glob_tor}

\* messages
Msg_plain == <<"h","i"," ","#","1","2">>
Msg_bare == <<"#","9","9","9","9">>
Msg_two == <<"#","9","9","9","9"," ","#","1","2","3","4">>
Msg_own == <<"D","e","b","#","1","2","3","4"," ","R","T","#","1","2","3","4">>
Msg_rtown == <<"d","e","b","i","a","n","r","t","#","4","2">>
Msg_path == <<"m","y","g","r","o","u","p","/","p","r","o","j","#","1","2","3","4">>
Msg_five == <<"#","9","9","9","9"," ","#","1","2","3","4"," ","#","9","9","9","9",
      " ","#","1","2","3","4"," ","#","9","9","9","9">>
Msg_mixed == <<"D","e","b","#","4","2","4","2"," ","D","#","1","2","3","4"," ",
      "#","9","9","9","9">>
Msgs == {Msg_plain, Msg_bare, Msg_two, Msg_own, Msg_rtown, Msg_path, Msg_five,
         Msg_mixed}

\* ticket numbers, as findall returns them
Id_9999 == << <<"9","9","9","9">> >>
Id_1234 == << <<"1","2","3","4">> >>
Id_42 == << <<"4","2">> >>
Id_4242 == << <<"4","2","4","2">> >>
Id_proj_1234 == << <<"m","y","g","r","o","u","p","/","p","r","o","j">>, <<"1","2","3","4">> >>

-----------------------------------------------------------------------------
(* The providers: three of those ticketconfig.py constructs.               *)

P_debian == "bugs.debian.org"
P_rt == "rt.debian.org"
P_gitlab == "gitlab.torproject.org"
Providers == {P_debian, P_rt, P_gitlab}

ProviderClass(p) ==
    CASE p = P_debian -> "TicketHtmlTitleProvider"
      [] p = P_rt     -> "TicketRTProvider"
      [] p = P_gitlab -> "GitlabTitleProvider"

prefix(p) ==
    CASE p = P_debian -> Some(<<"D","e","b","i","a","n">>)
      [] p = P_rt     -> Some(<<"D","e","b","i","a","n","R","T">>)
      [] p = P_gitlab -> Some(<<"g","i","t","l","a","b","t","p","o">>)

default_re(p) ==
    CASE p = P_debian -> Some(DebianRE)
      [] p = P_rt     -> None
      [] p = P_gitlab -> Some(GitlabRE)

url(p) ==
    CASE p = P_debian -> "http://bugs.debian.org/cgi-bin/bugreport.cgi?bug="
      [] p = P_gitlab -> "https://gitlab.torproject.org/"
      [] OTHER        -> ""

\* self.re, as BaseProvider.__init__ sets it
ProviderRE(p) ==
    IF default_re(p) = None /\ prefix(p) # None
    THEN Some(PrefixRE(prefix(p)[1]))
    ELSE default_re(p)

\* BaseProvider.minRepeat
minRepeat == 1800

\* the number of matches from which doPrivmsg gives up
Ceiling == 4

-----------------------------------------------------------------------------
(* re.findall and fnmatch.fnmatch on the texts of the model, worked out    *)
(* once.                                                                   *)

Patterns ==
    {defaultRE, DebianRE, DebianShortRE, RtRE, GitlabRE}
        \cup {ProviderRE(p)[1] : p \in {q \in Providers : ProviderRE(q) # None}}

FindallTable == [re \in Patterns |-> [s \in Msgs |-> FindFrom(re, s, 1)]]

FnmatchTable == [name \in Targets |-> [pat \in AllGlobs |-> GlobMatch(name, pat)]]

\* re.findall(re, s)
findall(re, s) == FindallTable[re][s]

\* variant: the glob of a binding is not looked at
fnmatchAny(name, pat) == TRUE

\* fnmatch.fnmatch(name, pat)
fnmatch(name, pat) == FnmatchTable[name][pat]

-----------------------------------------------------------------------------
(* BaseProvider: matching and channel bindings.                            *)

\* BaseProvider.matches
matches(p, msg) ==
    IF ProviderRE(p) = None THEN <<>> ELSE findall(ProviderRE(p)[1], msg)

\* self.channels[channel] = {'re': regex, 'default': default}: a key that is
\* already present keeps its place in the dict's order
addChannel(chs, channel, regex, default) ==
    LET b == [glob |-> channel, re |-> regex, default |-> default]
    IN  IF \E i \in DOMAIN chs : chs[i].glob = channel
        THEN [i \in DOMAIN chs |-> IF chs[i].glob = channel THEN b ELSE chs[i]]
        ELSE Append(chs, b)

\* variant: the bare-number pattern is tried whether or not the binding is
\* a default one
BindingMatchesAlwaysDefault(ch, tgt, msg) ==
    IF GlobMatch(tgt, ch.glob)
    THEN FindFrom(defaultRE, msg, 1)
         \o (IF ch.re # None THEN FindFrom(ch.re[1], msg, 1) ELSE <<>>)
    ELSE <<>>

\* variant: the default flag of a binding is never looked at
BindingMatchesNoDefault(ch, tgt, msg) ==
    IF GlobMatch(tgt, ch.glob) /\ ch.re # None
    THEN FindFrom(ch.re[1], msg, 1)
    ELSE <<>>

\* variant: the dedicated pattern of a binding is tried before the
\* bare-number pattern
BindingMatchesDedicatedFirst(ch, tgt, msg) ==
    IF GlobMatch(tgt, ch.glob)
    THEN (IF ch.re # None THEN FindFrom(ch.re[1], msg, 1) ELSE <<>>)
         \o (IF ch.default THEN FindFrom(defaultRE, msg, 1) ELSE <<>>)
    ELSE <<>>

\* what one binding adds to the matches of doPrivmsg
BindingMatches(ch, tgt, msg) ==
    IF fnmatch(tgt, ch.glob)
    THEN (IF ch.default THEN findall(defaultRE, msg) ELSE <<>>)
         \o (IF ch.re # None THEN findall(ch.re[1], msg) ELSE <<>>)
    ELSE <<>>

\* for key in self.channels: ...
RECURSIVE ChannelMatches(_, _, _)
ChannelMatches(chs, tgt, msg) ==
    IF chs = <<>> THEN <<>>
    ELSE BindingMatches(Head(chs), tgt, msg) \o ChannelMatches(Tail(chs), tgt, msg)

\* variant: the loop over the bindings ends at the first one that applies
CollectFirstBinding(chs, p, tgt, msg) ==
    LET app == {i \in DOMAIN chs : fnmatch(tgt, chs[i].glob)}
    IN  matches(p, msg)
            \o (IF app = {} THEN <<>>
                ELSE BindingMatches(chs[CHOOSE i \in app : \A j \in app : i <= j],
                                    tgt, msg))

\* the list `matches` of doPrivmsg when it reaches the ceiling check
Collect(chs, p, tgt, msg) == matches(p, msg) \o ChannelMatches(chs, tgt, msg)

\* variant: no ceiling on the number of matches
TooManyMatchesNever(ms) == FALSE

\* if len(matches) >= 4
TooManyMatches(ms) == Len(ms) >= Ceiling

\* variant: the target is left out of the key
KeyWithoutTarget(tgt, m) == << <<>>, m >>

\* the key of the rate-limit cache
Key(tgt, m) == <<tgt, m>>

\* variant: half the window
RateLimitedHalf(ls, tgt, m, t) ==
    /\ <<tgt, m>> \in DOMAIN ls
    /\ ls[<<tgt, m>>] >= t - (minRepeat \div 2)

\* variant: the window ends at its last second
RateLimitedStrict(ls, tgt, m, t) ==
    /\ <<tgt, m>> \in DOMAIN ls
    /\ ls[<<tgt, m>>] > t - minRepeat

\* (tgt,m) in self.lastSent and self.lastSent[(tgt,m)] >= time.time() - self.minRepeat
RateLimited(ls, tgt, m, t) ==
    /\ Key(tgt, m) \in DOMAIN ls
    /\ ls[Key(tgt, m)] >= t - minRepeat

\* variant: the reply is not recorded
SentNothing(ls, tgt, m, t) == ls

\* variant: an entry that exists keeps its time (setdefault)
SentKeepFirst(ls, tgt, m, t) ==
    IF <<tgt, m>> \in DOMAIN ls THEN ls ELSE (<<tgt, m>> :> t) @@ ls

\* variant: the cache is replaced by the one new entry
SentOnly(ls, tgt, m, t) == (<<tgt, m>> :> t)

\* self.lastSent[(tgt,m)] = time.time()
Sent(ls, tgt, m, t) == (Key(tgt, m) :> t) @@ ls

\* variant: the lookup is not guarded
CaughtNothing(res) == FALSE

\* except IndexError: the one exception doPrivmsg catches
Caught(res) == res = "IndexError"

-----------------------------------------------------------------------------
(* Resolving a ticket number: provider[ticketnumber].                      *)

\* What the tracker answers to one lookup: a title ("ok"); a not-found
\* condition (HTTPError, CalledProcessError, "No matching results."), which
\* _gettitle raises as IndexError; or a failure to reach it
\* (urllib.error.URLError, a failure to start the rt client: both OSError),
\* which _gettitle does not catch.
Outcomes == {"ok", "IndexError", "OSError"}

\* str(int(s)): the digits without leading zeros
RECURSIVE StripZeros(_)
StripZeros(s) ==
    IF Len(s) > 1 /\ Head(s) = "0" THEN StripZeros(Tail(s)) ELSE s

\* TicketHtmlTitleProvider._gettitle: urlopen('%s%s' % (url or self.url, ticketnumber))
HtmlFetch(base, number) == [err |-> "none", what |-> base \o number]

\* variant: the issue is fetched from url + path + '/issues/' + ticketnumber
GitlabFetchPlainIssues(base, m) ==
    IF Len(m) = 2
    THEN [err |-> "none", what |-> base \o m[1] \o <<"/issues/">> \o m[2]]
    ELSE [err |-> "ValueError", what |-> <<>>]

\* GitlabTitleProvider._gettitle: path, ticketnumber = ticketnumber, then the
\* title of url + path + '/-/issues/' + ticketnumber.  A ticket number that is
\* a bare string (a match of a one-group pattern) unpacks into its two
\* characters, or not at all (ValueError)
GitlabFetch(base, m) ==
    IF Len(m) = 2
    THEN HtmlFetch(base \o m[1] \o <<"/-/issues/">>, m[2])
    ELSE IF Len(m[1]) = 2
    THEN HtmlFetch(base \o <<m[1][1]>> \o <<"/-/issues/">>, <<m[1][2]>>)
    ELSE [err |-> "ValueError", what |-> <<>>]

\* TicketRTProvider._gettitle: ['rt', 'ls', '-i', str(int(ticketnumber)), '-s']
RtFetch(m) ==
    IF Len(m) = 1
    THEN [err |-> "none",
          what |-> <<"rt", "ls", "-i">> \o StripZeros(m[1]) \o <<"-s">>]
    ELSE [err |-> "TypeError", what |-> <<>>]

\* _gettitle of provider p for ticket number m: what it fetches (the base
\* url is one element of the sequence, the rest its characters), or the
\* exception it raises before fetching anything
Fetch(p, m) ==
    CASE ProviderClass(p) = "TicketHtmlTitleProvider" -> HtmlFetch(<<url(p)>>, m[1])
      [] ProviderClass(p) = "GitlabTitleProvider"     -> GitlabFetch(<<url(p)>>, m)
      [] ProviderClass(p) = "TicketRTProvider"        -> RtFetch(m)

-----------------------------------------------------------------------------
(* History kept beside the program's state: for every (p, tgt, m) the time *)
(* of the last reply p emitted to tgt for m, and how many times since then *)
(* a match m for tgt was dropped as rate limited.                          *)

Never == 0 - 1
NoHist == [sent |-> Never, drops |-> 0]
HistGet(h, k) == IF k \in DOMAIN h THEN h[k] ELSE NoHist

\* the time of the last reply any provider emitted to tgt for m, or Never
LastReplyAny(h, tgt, m) ==
    LET ts == {HistGet(h, <<q, tgt, m>>).sent : q \in Providers}
    IN  CHOOSE t \in ts : \A u \in ts : u <= t

-----------------------------------------------------------------------------
(* doPrivmsg: the loop over the matches, candidate i onwards.  env[i] is   *)
(* what the tracker answers for candidate i, lat the time one lookup       *)
(* takes.  acc carries lastSent (ls), the clock (t), the replies yielded   *)
(* so far, the lookups made, the positions of the matches dropped as rate  *)
(* limited, the exception that ended the generator, and the history.       *)

RECURSIVE Loop(_, _, _, _, _, _, _)
Loop(p, tgt, ms, i, env, lat, acc) ==
    IF i > Len(ms) \/ acc.raised # "none" THEN acc
    ELSE
    LET m   == ms[i]
        k   == <<p, tgt, m>>
        old == HistGet(acc.hist, k)
    IN
    IF RateLimited(acc.ls, tgt, m, acc.t)
    THEN Loop(p, tgt, ms, i + 1, env, lat,
              [acc EXCEPT !.dropped = Append(@, i),
                          !.hist = (k :> [old EXCEPT !.drops = @ + 1]) @@ @])
    ELSE
    LET f     == Fetch(p, m)
        res   == IF f.err # "none" THEN f.err ELSE env[i]
        t1    == IF f.err # "none" THEN acc.t ELSE acc.t + lat
        look  == [i |-> i, m |-> m, what |-> f.what, res |-> res, t |-> acc.t]
        tried == [acc EXCEPT !.t = t1, !.resolved = Append(@, look)]
        reply == [i |-> i, m |-> m, t |-> t1, prev |-> old.sent,
                  drops |-> old.drops,
                  prevAny |-> LastReplyAny(acc.hist, tgt, m)]
    IN  IF res = "ok"
        THEN Loop(p, tgt, ms, i + 1, env, lat,
                  [tried EXCEPT !.ls = Sent(@, tgt, m, t1),
                                !.replies = Append(@, reply),
                                !.hist = (k :> [sent |-> t1, drops |-> 0]) @@ @])
        ELSE IF Caught(res)
        THEN Loop(p, tgt, ms, i + 1, env, lat, tried)
        ELSE [tried EXCEPT !.raised = res]

-----------------------------------------------------------------------------
(* The title pipeline: provider[ticketnumber].  A provider is configured   *)
(* by cfg: fixup (None or the pattern of a ReGroupFixup), prefix, postfix  *)
(* (None or a text) and status_finder (whether there is one).              *)

\* the characters \s matches in the titles of the model
WhiteSpace == {" ", "\t", "\n"}

RECURSIVE LStrip(_)
LStrip(s) ==
    IF s # <<>> /\ Head(s) \in WhiteSpace THEN LStrip(Tail(s)) ELSE s

RECURSIVE RStrip(_)
RStrip(s) ==
    IF s # <<>> /\ s[Len(s)] \in WhiteSpace
    THEN RStrip(SubSeq(s, 1, Len(s) - 1))
    ELSE s

\* re.sub('\s+', ' ', s)
RECURSIVE SubSpaces(_)
SubSpaces(s) ==
    IF s = <<>> THEN <<>>
    ELSE IF Head(s) \in WhiteSpace THEN <<" ">> \o SubSpaces(LStrip(s))
    ELSE <<Head(s)>> \o SubSpaces(Tail(s))

\* variant: the title is stripped, its inner whitespace left as it is
CollapseStripOnly(s) == RStrip(LStrip(s))

\* re.sub('\s+', ' ', title).strip()
Collapse(s) == RStrip(LStrip(SubSpaces(s)))

\* fmt % (arg): every %s of fmt replaced by arg
RECURSIVE Format(_, _)
Format(fmt, arg) ==
    IF fmt = <<>> THEN <<>>
    ELSE IF Len(fmt) >= 2 /\ fmt[1] = "%" /\ fmt[2] = "s"
    THEN arg \o Format(SubSeq(fmt, 3, Len(fmt)), arg)
    ELSE <<Head(fmt)>> \o Format(Tail(fmt), arg)

StartsWith(s, a) == Len(s) >= Len(a) /\ SubSeq(s, 1, Len(a)) = a
EndsWith(s, a) == Len(s) >= Len(a) /\ SubSeq(s, Len(s) - Len(a) + 1, Len(s)) = a

\* The patterns of ReGroupFixup modelled have the shape
\*   lit1 [0-9]+ lit2 (.*) lit3 $
\* with lit2 not starting with a digit.
\* 'Issue #[0-9]+: (.*) - Foo Tracker$'
FooRE == [lit1 |-> <<"I","s","s","u","e"," ","#">>,
          lit2 |-> <<":"," ">>,
          lit3 |-> <<" ","-"," ","F","o","o"," ","T","r","a","c","k","e","r">>]

\* re.match(groupre, x) on a title without line breaks: group 1, or None
GroupMatch(groupre, x) ==
    IF ~StartsWith(x, groupre.lit1) THEN None
    ELSE LET j == Len(groupre.lit1) + 1
             d == RunLen(x, j, Digits)
             r == SubSeq(x, j + d, Len(x))
         IN  IF d = 0 \/ ~StartsWith(r, groupre.lit2) THEN None
             ELSE LET g == SubSeq(r, Len(groupre.lit2) + 1, Len(r))
                  IN  IF EndsWith(g, groupre.lit3)
                      THEN Some(SubSeq(g, 1, Len(g) - Len(groupre.lit3)))
                      ELSE None

\* ReGroupFixup.__call__(i, x)
ReGroupFixup(groupre, i, x) ==
    LET m == GroupMatch(groupre, x)
    IN  <<"#">> \o i \o <<":", " ">> \o (IF m # None THEN m[1] ELSE x)

\* BaseProvider.fixup_title
fixup_title(cfg, title, ticketnumber) ==
    LET t1 == Collapse(title)
        t2 == IF cfg.fixup # None
              THEN ReGroupFixup(cfg.fixup[1], ticketnumber, t1) ELSE t1
        t3 == IF cfg.prefix # None THEN cfg.prefix[1] \o t2 ELSE t2
    IN  IF cfg.postfix # None
        THEN t3 \o Format(cfg.postfix[1], ticketnumber) ELSE t3

\* "%s - [%s]" % (title, status)
WithStatus(title, status) == title \o <<" ", "-", " ", "[">> \o status \o <<"]">>

\* variant: the status is put on the title before fixup_title is called
getitemStatusFirst(cfg, raw, status, ticketnumber) ==
    IF cfg.status_finder /\ status # None
    THEN fixup_title(cfg, WithStatus(Collapse(raw), status[1]), ticketnumber)
    ELSE fixup_title(cfg, raw, ticketnumber)

\* BaseProvider.__getitem__, raw being the title _gettitle returns and
\* status what the status_finder returns
getitem(cfg, raw, status, ticketnumber) ==
    LET title == fixup_title(cfg, raw, ticketnumber)
    IN  IF cfg.status_finder /\ status # None
        THEN WithStatus(title, status[1])
        ELSE title

\* the titles a tracker may serve for "Issue #42: Fix the thing - Foo
\* Tracker": its words, with a run of whitespace in every gap and around
TitleWords ==
    <<<<"I","s","s","u","e">>, <<"#","4","2",":">>, <<"F","i","x">>, <<"t","h","e">>, <<"t","h","i","n","g">>, <<"-">>, <<"F","o","o">>, <<"T","r","a","c","k","e","r">>>>
Gaps == {<<" ">>, <<" ", "\t", "\n", " ">>}
Margins == {<<>>, <<"\n", " ", "\t">>}

RECURSIVE JoinWords(_, _, _)
JoinWords(ws, gaps, i) ==
    IF i = Len(ws) THEN ws[i]
    ELSE ws[i] \o gaps[i] \o JoinWords(ws, gaps, i + 1)

FooTitles ==
    {l \o JoinWords(TitleWords, g, 1) \o r :
        l \in Margins, r \in Margins, g \in [1..(Len(TitleWords) - 1) -> Gaps]}

\* a title the pattern of the fixup does not match
Title_other == <<" ","F","i","x"," "," ","t","h","e"," ","t","h","i","n","g"," ">>

RawTitles == FooTitles \cup {Title_other}

TitleConfigs ==
    [fixup : {None, Some(FooRE)},
     prefix : {None, Some(<<"X">>)},
     postfix : {None, Some(<<" ","-"," ","h","t","t","p",":","/","/","x","/","%","s">>)},
     status_finder : BOOLEAN]

\* what a status_finder returns
Statuses == {None, Some(<<"o","p","e","n">>)}

\* the ticket number
Tn_42 == <<"4","2">>

-----------------------------------------------------------------------------
(* TorProposalProvider: the proposal index, fetched and kept for two hours. *)

\* self.expire = time.time() + 7200
TTL == 7200

\* two versions of the index document
Blob_old == <<"0","0","0"," ","I","n","d","e","x","\n","1","0","0"," ","D","i","r","\n">>
Blob_new == <<"0","0","0"," ","I","n","d","e","x","\n","1","0","0"," "," ","D","i","r"," ","v","2","\n","1","0","1"," ","V","o","t","e","\n">>
Blobs == {Blob_old, Blob_new}

\* what a fetch of self.url does: urlopen raises; or urlopen returns and
\* response.read() or data.decode(charset) raises; or the document is read,
\* with a charset in its headers or without one
FetchOutcomes ==
    {[how |-> h, body |-> <<>>, charset |-> FALSE] :
         h \in {"urlopen raises", "read raises"}}
    \cup {[how |-> "read", body |-> b, charset |-> c] :
              b \in Blobs, c \in BOOLEAN}

\* the data after the document of out is read: a str when the headers name
\* a charset, else the bytes as read
Read(out) == Some([text |-> out.body, str |-> out.charset])

\* variant: the index is fetched on every call
updateAlways(d, e, t, out, lat) ==
    IF out.how = "urlopen raises"
    THEN [data |-> d, expire |-> e, fetched |-> TRUE, ok |-> FALSE,
          raised |-> "none", t |-> t]
    ELSE IF out.how = "read raises"
    THEN [data |-> d, expire |-> e, fetched |-> TRUE, ok |-> FALSE,
          raised |-> "IncompleteRead", t |-> t]
    ELSE [data |-> Read(out), expire |-> t + lat + TTL, fetched |-> TRUE,
          ok |-> TRUE, raised |-> "none", t |-> t + lat]

\* TorProposalProvider.update at time t, with data d and expire e, when a
\* fetch would end as out after lat seconds: the new data and expire,
\* whether the index was fetched, whether data and expire were assigned,
\* the exception that leaves update, and the time at the return
update(d, e, t, out, lat) ==
    IF e > t
    THEN [data |-> d, expire |-> e, fetched |-> FALSE, ok |-> FALSE,
          raised |-> "none", t |-> t]
    ELSE IF out.how = "urlopen raises"
    THEN [data |-> d, expire |-> e, fetched |-> TRUE, ok |-> FALSE,
          raised |-> "none", t |-> t]
    ELSE IF out.how = "read raises"
    THEN [data |-> d, expire |-> e, fetched |-> TRUE, ok |-> FALSE,
          raised |-> "IncompleteRead", t |-> t]
    ELSE [data |-> Read(out), expire |-> t + lat + TTL, fetched |-> TRUE,
          ok |-> TRUE, raised |-> "none", t |-> t + lat]

\* re.search('^%s\s*(.*)'%(ticketnumber,), s, flags=re.MULTILINE): group 1
\* of the first match, or None
SearchIndex(s, ticketnumber) ==
    LET starts == {i \in 1..Len(s) :
                      /\ i = 1 \/ s[i - 1] = "\n"
                      /\ LitAt(s, i, ticketnumber, FALSE)}
    IN  IF starts = {} THEN None
        ELSE LET i == CHOOSE x \in starts : \A y \in starts : x <= y
                 j == i + Len(ticketnumber)
                 k == j + RunLen(s, j, WhiteSpace)
                 n == RunLen(s, k, {s[x] : x \in DOMAIN s} \ {"\n"})
             IN  Some(SubSeq(s, k, k + n - 1))

\* TorProposalProvider._gettitle, after self.update(): re.search with a str
\* pattern raises TypeError on bytes
ProposalTitle(d, ticketnumber) ==
    IF d = None
    THEN [raised |-> "IndexError", why |-> "No proposal index available."]
    ELSE IF ~d[1].str
    THEN [raised |-> "TypeError"]
    ELSE LET m == SearchIndex(d[1].text, ticketnumber)
         IN  IF m = None
             THEN [raised |-> "IndexError", why |-> "Proposal not found."]
             ELSE [raised |-> "none", title |-> m[1]]

\* proposal numbers looked up
Tn_100 == <<"1","0","0">>
Tn_101 == <<"1","0","1">>
ProposalNumbers == {Tn_100, Tn_101}

-----------------------------------------------------------------------------
(* The state machine.                                                      *)

\* the steps of the clock between two messages, and the time one lookup takes
Ticks == {900, 901}
Latencies == {0, 900}

NoCall == [op |-> "none"]
NoItem == [op |-> "none"]
\* no fetch of the proposal index yet
NoRefresh == [fetched |-> FALSE]

EmptyMap == [k \in {} |-> 0]

\* a sequence of addChannel calls
RECURSIVE AddChannels(_, _)
AddChannels(chs, calls) ==
    IF calls = <<>> THEN chs
    ELSE AddChannels(addChannel(chs, calls[1][1], calls[1][2], calls[1][3]),
                     Tail(calls))

\* TicketConfig._setup_channels, for the three providers
SetupChannels(p) ==
    CASE p = P_gitlab ->
           AddChannels(<<>>, << <<Glob_ooni, None, FALSE>>,
                                <<Glob_nottor, None, FALSE>>,
                                <<Glob_tor, None, FALSE>> >>)
      [] p = P_debian ->
           AddChannels(<<>>, << <<Glob_munin, Some(DebianShortRE), FALSE>>,
                                <<Glob_debian, None, TRUE>>,
                                <<Glob_pbuilder, None, TRUE>>,
                                <<Glob_devscripts, None, TRUE>>,
                                <<Glob_reproducible_builds, None, TRUE>>,
                                <<Glob_deb, None, TRUE>> >>)
      [] p = P_rt ->
           AddChannels(<<>>, << <<Glob_debian, Some(RtRE), FALSE>>,
                                <<Glob_pbuilder, Some(RtRE), FALSE>>,
                                <<Glob_devscripts, Some(RtRE), FALSE>>,
                                <<Glob_reproducible_builds, Some(RtRE), FALSE>>,
                                <<Glob_deb, Some(RtRE), FALSE>> >>)

\* the providers as BaseProvider.__init__ leaves them
InitProviders ==
    /\ lastSent = [p \in Providers |-> EmptyMap]
    /\ now = 0
    /\ handled = 0
    /\ hist = EmptyMap
    /\ last = NoCall
    /\ item = NoItem
    /\ data = None
    /\ expire = 0
    /\ refresh = NoRefresh

\* the state after TicketConfig()
Init ==
    /\ channels = [p \in Providers |-> SetupChannels(p)]
    /\ InitProviders

\* the state before any channel is bound
InitUnbound ==
    /\ channels = [p \in Providers |-> <<>>]
    /\ InitProviders

RECURSIVE SumLen(_, _)
SumLen(f, S) ==
    IF S = {} THEN 0
    ELSE LET x == CHOOSE x \in S : TRUE IN Len(f[x]) + SumLen(f, S \ {x})

\* the dedicated patterns addChannel is tried with: RT#n for rt.debian.org
DedicatedREs(p) == IF p = P_rt THEN {None, Some(RtRE)} ELSE {None}

\* the dedicated patterns bugs.debian.org is bound with
DebianREs == {None, Some(DebianShortRE)}

\* provider.addChannel(channel, regex, default), while the bot is set up
AddChannel(p, channel, regex, default) ==
    /\ handled = 0
    /\ \/ SumLen(channels, Providers) < MaxBindings
       \/ \E i \in DOMAIN channels[p] : channels[p][i].glob = channel
    /\ channels' = [channels EXCEPT ![p] = addChannel(@, channel, regex, default)]
    /\ UNCHANGED <<lastSent, now, handled, hist, last, titleVars, proposalVars>>

\* time passes between two messages
Tick(d) ==
    /\ now + d <= MaxClock
    /\ now' = now + d
    /\ UNCHANGED <<channels, lastSent, handled, hist, last, titleVars, proposalVars>>

\* the host consumes provider.doPrivmsg(tgt, msg) to its end
DoPrivmsg(p, tgt, msg) ==
    /\ handled < MaxCalls
    /\ handled' = handled + 1
    /\ UNCHANGED <<channels, titleVars, proposalVars>>
    /\ LET ms   == Collect(channels[p], p, tgt, msg)
           call == [op |-> "doPrivmsg", p |-> p, tgt |-> tgt, msg |-> msg,
                    t0 |-> now, matches |-> ms]
       IN  IF TooManyMatches(ms)
           THEN \* log.debug("[%s] ... (%d)"%(len(matches),)): the format takes
                \* two arguments and is given one, so the line raises TypeError
                /\ last' = call @@ [replies |-> <<>>, resolved |-> <<>>,
                                    dropped |-> <<>>, raised |-> "TypeError"]
                /\ UNCHANGED <<lastSent, now, hist>>
           ELSE \E env \in [1..Len(ms) -> Outcomes], lat \in Latencies :
                LET r == Loop(p, tgt, ms, 1, env, lat,
                              [ls |-> lastSent[p], t |-> now, replies |-> <<>>,
                               resolved |-> <<>>, dropped |-> <<>>,
                               raised |-> "none", hist |-> hist])
                IN  /\ r.t <= MaxClock
                    /\ lastSent' = [lastSent EXCEPT ![p] = r.ls]
                    /\ now' = r.t
                    /\ hist' = r.hist
                    /\ last' = call @@ [replies |-> r.replies,
                                        resolved |-> r.resolved,
                                        dropped |-> r.dropped,
                                        raised |-> r.raised]

\* the bot as configured, handling messages that reach the two providers
\* of the Debian channels
RunProviders == {P_debian, P_rt}
RunMsgs == {Msg_bare, Msg_two, Msg_own}

Next ==
    \/ \E d \in Ticks : Tick(d)
    \/ \E p \in RunProviders, tgt \in Targets, msg \in RunMsgs :
           DoPrivmsg(p, tgt, msg)

Spec == Init /\ [][Next]_vars

\* any bindings, then one message
NextOneMessage ==
    \/ \E p \in Providers, g \in Globs, d \in BOOLEAN :
           \E r \in DedicatedREs(p) : AddChannel(p, g, r, d)
    \/ \E p \in Providers, tgt \in Targets, msg \in Msgs \ {Msg_mixed} :
           handled = 0 /\ DoPrivmsg(p, tgt, msg)

SpecOneMessage == InitUnbound /\ [][NextOneMessage]_vars

\* bugs.debian.org alone: any bindings, with the dedicated pattern D#n or
\* without one, then one message
NextDebian ==
    \/ \E g \in Globs, d \in BOOLEAN, r \in DebianREs :
           AddChannel(P_debian, g, r, d)
    \/ \E tgt \in Targets, msg \in Msgs :
           handled = 0 /\ DoPrivmsg(P_debian, tgt, msg)

SpecDebian == InitUnbound /\ [][NextDebian]_vars

-----------------------------------------------------------------------------
(* Resolving one ticket number: provider[ticketnumber] on a title fetched. *)

\* a title has been fetched for ticket number 42: what _gettitle returns,
\* for a provider configured by cfg, and what its status_finder will return
InitTitle ==
    /\ channels = [p \in Providers |-> <<>>]
    /\ lastSent = [p \in Providers |-> EmptyMap]
    /\ now = 0
    /\ handled = 0
    /\ hist = EmptyMap
    /\ last = NoCall
    /\ data = None
    /\ expire = 0
    /\ refresh = NoRefresh
    /\ \E cfg \in TitleConfigs, raw \in RawTitles :
           \E status \in (IF cfg.status_finder THEN Statuses ELSE {None}) :
               item = [op |-> "_gettitle", cfg |-> cfg, raw |-> raw,
                       status |-> status, ticketnumber |-> Tn_42]

\* provider[ticketnumber], from the return of _gettitle on
GetItem ==
    /\ item.op = "_gettitle"
    /\ item' = [item EXCEPT !.op = "getitem"] @@
                    [result |-> getitem(item.cfg, item.raw, item.status,
                                        item.ticketnumber)]
    /\ UNCHANGED <<privmsgVars, now, proposalVars>>

NextTitle == GetItem

SpecTitle == InitTitle /\ [][NextTitle]_vars

-----------------------------------------------------------------------------
(* The proposal provider: its construction, lookups, and the clock.        *)

\* the steps of the clock between two lookups, and the time a fetch takes
ProposalTicks == {3600, 3601}
ProposalLatencies == {0, 60}

\* TorProposalProvider.__init__ before its call of self.update()
InitProposal ==
    /\ channels = [p \in Providers |-> <<>>]
    /\ lastSent = [p \in Providers |-> EmptyMap]
    /\ now = 0
    /\ handled = 0
    /\ hist = EmptyMap
    /\ last = NoCall
    /\ item = NoItem
    /\ data = None
    /\ expire = 0
    /\ refresh = NoRefresh

\* the history of the fetches after update returned u at a call made at
\* now, when a fetch would end as out
Refreshed(u, op, out) ==
    [fetched |-> u.fetched, ok |-> u.ok, op |-> op, at |-> now,
     got |-> (IF u.fetched THEN Some(out) ELSE None),
     n |-> (IF refresh = NoRefresh THEN 1 ELSE refresh.n + 1),
     lastOk |-> (IF u.ok THEN u.t
                 ELSE IF refresh = NoRefresh THEN Never ELSE refresh.lastOk)]

\* TorProposalProvider(name): expire = 0, data = None, self.update(); an
\* exception of update leaves no provider, and the construction is made
\* again
Construct(out, lat) ==
    /\ IF refresh = NoRefresh THEN TRUE
       ELSE /\ refresh.op = "__init__"
            /\ refresh.raised # "none"
            /\ refresh.n <= MaxLookups
    /\ LET u == update(None, 0, now, out, lat)
       IN  /\ u.t <= MaxProposalClock
           /\ data' = u.data
           /\ expire' = u.expire
           /\ now' = u.t
           /\ refresh' = Refreshed(u, "__init__", out)
                              @@ [raised |-> u.raised]
    /\ UNCHANGED <<privmsgVars, titleVars>>

\* provider._gettitle(ticketnumber): an exception of self.update() leaves
\* _gettitle before the lookup
Lookup(ticketnumber, out, lat) ==
    /\ refresh # NoRefresh
    /\ refresh.op = "__init__" => refresh.raised = "none"
    /\ refresh.n <= MaxLookups
    /\ LET u == update(data, expire, now, out, lat)
       IN  /\ u.t <= MaxProposalClock
           /\ data' = u.data
           /\ expire' = u.expire
           /\ now' = u.t
           /\ refresh' = Refreshed(u, "_gettitle", out)
                              @@ [ticketnumber |-> ticketnumber]
                              @@ (IF u.raised # "none"
                                  THEN [raised |-> u.raised]
                                  ELSE ProposalTitle(u.data, ticketnumber))
    /\ UNCHANGED <<privmsgVars, titleVars>>

\* time passes between two lookups
ProposalTick(d) ==
    /\ refresh # NoRefresh
    /\ now + d <= MaxProposalClock
    /\ now' = now + d
    /\ UNCHANGED <<privmsgVars, titleVars, proposalVars>>

NextProposal ==
    \/ \E out \in FetchOutcomes, lat \in ProposalLatencies : Construct(out, lat)
    \/ \E tn \in ProposalNumbers, out \in FetchOutcomes, lat \in ProposalLatencies :
           Lookup(tn, out, lat)
    \/ \E d \in ProposalTicks : ProposalTick(d)

SpecProposal == InitProposal /\ [][NextProposal]_vars

-----------------------------------------------------------------------------
(* Properties.  They are stated over `last`, the record of the last call   *)
(* of doPrivmsg, and over the history; what the patterns and globs of the  *)
(* model match is written down here once more, from the texts themselves.  *)

Called == last.op = "doPrivmsg"

\* the positions of the replies, and of the lookups, of call c for m
RepliesFor(c, m) == {i \in DOMAIN c.replies : c.replies[i].m = m}
LookupsFor(c, m) == {i \in DOMAIN c.resolved : c.resolved[i].m = m}

\* every match of call c is the one ticket number m
OnlyMatch(c, m) ==
    /\ c.matches # <<>>
    /\ \A i \in DOMAIN c.matches : c.matches[i] = m

\* the targets of the model a glob covers
Covers(glob) ==
    IF glob = Glob_generic THEN {Chan_generic}
    ELSE IF glob \in {Glob_deb, Glob_debian} THEN {Chan_debian_devel}
    ELSE {}

\* the bindings of p that apply to tgt
Applying(p, tgt) ==
    {i \in DOMAIN channels[p] : tgt \in Covers(channels[p][i].glob)}

\* the matches of p's own pattern in msg
OwnMatches(p, msg) ==
    IF ProviderRE(p) = None THEN <<>> ELSE FindFrom(ProviderRE(p)[1], msg, 1)

\* the patterns of p that are active for tgt
ActivePatterns(p, tgt) ==
    (IF ProviderRE(p) = None THEN {} ELSE {ProviderRE(p)[1]})
    \cup {defaultRE : i \in {j \in Applying(p, tgt) : channels[p][j].default}}
    \cup {channels[p][i].re[1] :
             i \in {j \in Applying(p, tgt) : channels[p][j].re # None}}

NoPatternMatches(p, tgt, msg) ==
    \A re \in ActivePatterns(p, tgt) : findall(re, msg) = <<>>

-----------------------------------------------------------------------------
\* one call of doPrivmsg, seen against the replies made before it
IdempotenceStep ==
    (handled' = handled + 1) =>
        \A m \in {last'.matches[i] : i \in DOMAIN last'.matches} :
            OnlyMatch(last', m) =>
                LET prev == HistGet(hist, <<last'.p, last'.tgt, m>>).sent
                    free == prev = Never \/ last'.t0 - prev > minRepeat
                IN  /\ ~free => RepliesFor(last', m) = {}
                    /\ ( /\ free
                         /\ last'.raised = "none"
                         /\ \A i \in LookupsFor(last', m) :
                                last'.resolved[i].res = "ok" )
                       => Cardinality(RepliesFor(last', m)) = 1

\* C1  Idempotence under cooldown.  Take a call of doPrivmsg whose message
\* holds one ticket number m for the provider.  If the provider replied for
\* m to this target before and no more than minRepeat seconds have passed
\* since, the call gives no reply for m (the second call, inside the
\* window).  If it never replied for m to this target, or more than
\* minRepeat seconds have passed since it did, and m resolves, the call
\* gives one reply for m (the first call, and the third, after the window).
C1_IdempotenceUnderCooldown == [][IdempotenceStep]_vars

\* a third call: one match, answered, the provider having answered it
\* before and having dropped it as rate limited in a call in between
C1_Witness ==
    /\ Called
    /\ handled = 3
    /\ Len(last.matches) = 1
    /\ \E i \in DOMAIN last.replies :
           /\ last.replies[i].prev # Never
           /\ last.replies[i].drops >= 1

\* a call of doPrivmsg that repeats the call before it
NegativeCachingStep ==
    ( /\ Called
      /\ handled' = handled + 1
      /\ last'.p = last.p /\ last'.tgt = last.tgt /\ last'.msg = last.msg )
    => \A i \in DOMAIN last.resolved :
           ( /\ last.resolved[i].res = "IndexError"
             /\ last'.t0 - last.resolved[i].t <= minRepeat )
           => /\ LookupsFor(last', last.resolved[i].m) = {}
              /\ RepliesFor(last', last.resolved[i].m) = {}

\* C2  Cooldown consumption on failure.  If the lookup of m failed with
\* IndexError in one call, a repeat of the same message for the same target
\* within minRepeat seconds of that lookup does not look m up again and
\* gives no reply for m.
C2_CooldownConsumedOnFailure == [][NegativeCachingStep]_vars

\* C3  Channel opt-in.  If no binding of the provider applies to
\* the target, doPrivmsg collects no matches and gives no replies.
C3_NoBindingNoCandidates ==
    (Called /\ Applying(last.p, last.tgt) = {})
        => last.matches = <<>> /\ last.replies = <<>>

\* C3, with the own pattern  If no binding of the provider applies to the target, the
\* matches doPrivmsg collects are those of the provider's own pattern and no
\* others: nothing comes from the bare-number pattern or from a dedicated
\* pattern, and every reply is for a match of the own pattern.
C3_NoBindingOwnPatternOnly ==
    (Called /\ Applying(last.p, last.tgt) = {})
        => /\ last.matches = OwnMatches(last.p, last.msg)
           /\ \A i \in DOMAIN last.replies :
                  \E j \in DOMAIN OwnMatches(last.p, last.msg) :
                      OwnMatches(last.p, last.msg)[j] = last.replies[i].m

\* a provider bound as default elsewhere gets a bare number in a channel
\* none of its bindings applies to
C3_Witness ==
    /\ Called
    /\ Applying(last.p, last.tgt) = {}
    /\ \E i \in DOMAIN channels[last.p] : channels[last.p][i].default
    /\ last.msg = Msg_bare
    /\ last.matches = <<>>

\* C4  At most one reply per cooldown window.  Two replies to
\* the same target for the same ticket number, by whichever providers, are
\* at least minRepeat seconds apart.
C4_OneReplyPerWindowAcrossProviders ==
    Called => \A i \in DOMAIN last.replies :
                  last.replies[i].prevAny # Never
                      => last.replies[i].t - last.replies[i].prevAny >= minRepeat

\* C4, per provider  Two replies of one provider to the same target for the same
\* ticket number are at least minRepeat seconds apart, also when the number
\* is matched twice within one message.
C4_OneReplyPerWindowPerProvider ==
    Called => \A i \in DOMAIN last.replies :
                  last.replies[i].prev # Never
                      => last.replies[i].t - last.replies[i].prev >= minRepeat

\* a provider answers a ticket number it answered in this target before
C4_Witness ==
    /\ Called
    /\ \E i \in DOMAIN last.replies : last.replies[i].prev # Never

\* C5  Ceiling enforcement.  A call that collects more than Ceiling matches
\* (five or more) looks nothing up and gives no reply.
C5_CeilingEnforcement ==
    (Called /\ Len(last.matches) > Ceiling)
        => last.replies = <<>> /\ last.resolved = <<>>

C5_Witness == Called /\ Len(last.matches) > Ceiling

\* C6  TooManyMatches is a silent drop.  A call that collects more than
\* Ceiling matches ends without raising, and gives no reply.
C6_TooManyMatchesSilent ==
    (Called /\ Len(last.matches) > Ceiling)
        => last.raised = "none" /\ last.replies = <<>>

\* C7  Failures never reach the host.  Whatever the tracker answers to the
\* lookups, the call does not raise, and every match is either dropped as
\* rate limited or looked up.
C7_FailuresNeverReachHost ==
    Called => /\ last.raised = "none"
              /\ \A i \in DOMAIN last.matches :
                     \/ \E j \in DOMAIN last.dropped : last.dropped[j] = i
                     \/ \E j \in DOMAIN last.resolved : last.resolved[j].i = i

\* one call of doPrivmsg with a message nothing matches
NoMatchStep ==
    ( /\ handled' = handled + 1
      /\ NoPatternMatches(last'.p, last'.tgt, last'.msg) )
    => /\ last'.matches = <<>>
       /\ last'.replies = <<>>
       /\ last'.resolved = <<>>
       /\ last'.raised = "none"
       /\ lastSent' = lastSent

\* C8  If none of the provider's active patterns (its own, the bare-number
\* pattern of an applying default binding, the dedicated pattern of an
\* applying binding) matches the message, doPrivmsg gives no reply, looks
\* nothing up, does not raise and leaves lastSent as it was.
C8_NoMatchNoEffect == [][NoMatchStep]_vars

\* a call in which nothing matches, by a provider that has replied before
C8_Witness ==
    /\ Called
    /\ NoPatternMatches(last.p, last.tgt, last.msg)
    /\ lastSent[last.p] # EmptyMap

\* provider a is bound to #generic as default, without a dedicated pattern;
\* rt.debian.org is bound to #generic with the dedicated pattern RT#n only
GenericScenario(a) ==
    /\ channels[a] = <<[glob |-> Glob_generic, re |-> None, default |-> TRUE]>>
    /\ channels[P_rt] =
           <<[glob |-> Glob_generic, re |-> Some(RtRE), default |-> FALSE]>>

\* C9  Default-pattern precedence.  With provider a bound to #generic as
\* default and rt.debian.org bound to it with a dedicated pattern only, the
\* message "#9999" in #generic gives exactly one match, 9999, with provider
\* a and none with rt.debian.org.
C9_DefaultPatternPrecedence ==
    \A a \in Providers \ {P_rt} :
        ( /\ Called
          /\ GenericScenario(a)
          /\ last.tgt = Chan_generic
          /\ last.msg = Msg_bare )
        => /\ last.p = a => last.matches = <<Id_9999>>
           /\ last.p = P_rt => last.matches = <<>>

C9_Witness ==
    /\ Called
    /\ GenericScenario(P_debian)
    /\ last.tgt = Chan_generic
    /\ last.msg = Msg_bare
    /\ last.p = P_debian

\* the message "mygroup/proj#1234" reaches the composite provider in a
\* channel one of its bindings applies to
CompositeCase ==
    /\ Called
    /\ last.p = P_gitlab
    /\ Applying(P_gitlab, last.tgt) # {}
    /\ last.msg = Msg_path

\* the one match is the pair (path, number), it is looked up once at the
\* address `where`, and a reply records the pair, with the target, in lastSent
CompositeResult(where) ==
    /\ last.matches = <<Id_proj_1234>>
    /\ Len(last.resolved) = 1
    /\ last.resolved[1].m = Id_proj_1234
    /\ last.resolved[1].what = where
    /\ last.replies # <<>> =>
           DOMAIN lastSent[P_gitlab] = {<<last.tgt, Id_proj_1234>>}

-----------------------------------------------------------------------------
\* the tracker answered every lookup of the last call, with a title or with
\* a not-found condition
TrackerAnswered ==
    \A j \in DOMAIN last.resolved : last.resolved[j].res \in {"ok", "IndexError"}

\* position i of the matches of the last call was dropped as rate limited
WasDropped(i) == \E j \in DOMAIN last.dropped : last.dropped[j] = i

\* C12  Guard boundary.  A call that collects four matches or fewer, and at
\* least one, is not aborted: it goes on to the rate-limit check and the
\* lookups.
C12_GuardBoundary ==
    (Called /\ Len(last.matches) >= 1 /\ Len(last.matches) <= Ceiling)
        => /\ last.raised # "TypeError"
           /\ \A i \in DOMAIN last.matches :
                  \/ WasDropped(i)
                  \/ \E j \in DOMAIN last.resolved : last.resolved[j].i = i
                  \/ last.raised # "none"

\* C13  NotFound is isolated to one candidate.  In a call below the ceiling
\* in which every lookup is answered with a title or with IndexError, the
\* call does not raise, every match is dropped as rate limited or looked
\* up, and a match that is looked up gets a reply exactly when its lookup
\* gave a title: an IndexError takes the reply of its own match only.
C13_NotFoundIsolated ==
    (Called /\ Len(last.matches) < Ceiling /\ TrackerAnswered)
        => /\ last.raised = "none"
           /\ \A i \in DOMAIN last.matches :
                  \/ WasDropped(i)
                  \/ \E j \in DOMAIN last.resolved :
                         /\ last.resolved[j].i = i
                         /\ (last.resolved[j].res = "ok")
                                <=> (\E k \in DOMAIN last.replies :
                                         last.replies[k].i = i)

\* three matches, the one in the middle not found, the other two answered
C13_Witness ==
    /\ Called
    /\ last.matches = <<Id_4242, Id_9999, Id_1234>>
    /\ Len(last.resolved) = 3
    /\ last.resolved[2].res = "IndexError"
    /\ Len(last.replies) = 2
    /\ last.replies[1].i = 1
    /\ last.replies[2].i = 3

\* the matches of the bindings of p from the i-th on that apply to tgt, in
\* the order of registration: bare-number matches, then dedicated ones
RECURSIVE BindingsInOrder(_, _, _, _)
BindingsInOrder(p, tgt, msg, i) ==
    IF i > Len(channels[p]) THEN <<>>
    ELSE LET ch == channels[p][i]
         IN  (IF tgt \in Covers(ch.glob)
              THEN (IF ch.default THEN findall(defaultRE, msg) ELSE <<>>)
                   \o (IF ch.re # None THEN findall(ch.re[1], msg) ELSE <<>>)
              ELSE <<>>)
             \o BindingsInOrder(p, tgt, msg, i + 1)

\* C14  Emission order.  The matches of a call are those of the own pattern,
\* then for each applying binding in registration order those of the
\* bare-number pattern followed by those of the dedicated pattern; the
\* replies of the call are replies for matches at increasing positions of
\* that list.
C14_EmissionOrder ==
    Called =>
        /\ last.matches = OwnMatches(last.p, last.msg)
                              \o BindingsInOrder(last.p, last.tgt, last.msg, 1)
        /\ \A k \in DOMAIN last.replies :
               /\ last.replies[k].i \in DOMAIN last.matches
               /\ last.replies[k].m = last.matches[last.replies[k].i]
               /\ \A l \in DOMAIN last.replies :
                      k < l => last.replies[k].i < last.replies[l].i

\* own, bare-number and dedicated matches, in another order than in the
\* text of the message, all three answered
C14_Witness ==
    /\ Called
    /\ last.msg = Msg_mixed
    /\ last.matches = <<Id_4242, Id_9999, Id_1234>>
    /\ Len(last.replies) = 3

-----------------------------------------------------------------------------
\* every entry of lastSent holds the time of the provider's last reply for
\* its key, and every reply has its entry
EntriesAreEmissions ==
    /\ \A p \in Providers : \A k \in DOMAIN lastSent[p] :
           /\ Len(k) = 2
           /\ HistGet(hist, <<p, k[1], k[2]>>).sent = lastSent[p][k]
    /\ \A h \in DOMAIN hist :
           hist[h].sent # Never => <<h[2], h[3]>> \in DOMAIN lastSent[h[1]]

\* a call without replies leaves lastSent alone
NoReplyNoEntryStep ==
    (handled' = handled + 1 /\ last'.replies = <<>>) => lastSent' = lastSent

\* C18  Rate-limit entries record emissions only.  Every key of a
\* provider's lastSent was answered by that provider in that target, its
\* value is the time of the last such reply, and a call that gives no reply
\* (its matches rate limited, not found, or too many) changes no entry.
C18_EntriesRecordEmissions ==
    [][EntriesAreEmissions' /\ NoReplyNoEntryStep]_vars

\* a call whose matches were all dropped, by a provider with entries
C18_Witness ==
    /\ Called
    /\ last.replies = <<>>
    /\ last.dropped # <<>>
    /\ lastSent[last.p] # EmptyMap

\* a call for one target leaves the entries of other targets, and of other
\* providers, as they were, and drops a match only after a reply for it in
\* its own target
TargetIsolationStep ==
    (handled' = handled + 1) =>
        /\ \A p \in Providers : \A k \in DOMAIN lastSent'[p] :
               (p # last'.p \/ k[1] # last'.tgt)
                   => /\ k \in DOMAIN lastSent[p]
                      /\ lastSent'[p][k] = lastSent[p][k]
        /\ \A j \in DOMAIN last'.dropped :
               HistGet(hist', <<last'.p, last'.tgt,
                                last'.matches[last'.dropped[j]]>>).sent # Never

\* C19  Target isolation.  A doPrivmsg call for target T1 creates or changes
\* entries of lastSent only for keys of T1, and a reply for a ticket number
\* in T1 does not make the call for another target T2 drop that number.
C19_TargetIsolation == [][TargetIsolationStep]_vars

\* a reply for a number that was answered in the other target within the
\* window
C19_Witness ==
    /\ Called
    /\ \E i \in DOMAIN last.replies :
           \E k \in DOMAIN lastSent[last.p] :
               /\ k[1] # last.tgt
               /\ k[2] = last.replies[i].m
               /\ last.replies[i].t - lastSent[last.p][k] <= minRepeat

\* C20  Rate-limit entries persist.  No step removes a key from lastSent,
\* and the time stored for a key never decreases.
C20_EntriesPersist ==
    [][\A p \in Providers : \A k \in DOMAIN lastSent[p] :
           /\ k \in DOMAIN lastSent'[p]
           /\ lastSent'[p][k] >= lastSent[p][k]]_vars

\* an entry is renewed while another one of the same provider stays
C20_Witness ==
    /\ Called
    /\ Cardinality(DOMAIN lastSent[last.p]) >= 2
    /\ \E i \in DOMAIN last.replies :
           /\ last.replies[i].prev # Never
           /\ last.replies[i].t > last.replies[i].prev

-----------------------------------------------------------------------------
\* the provider with the fixup for 'Issue #[0-9]+: (.*) - Foo Tracker$',
\* prefix "X" and postfix " - http://x/%s", with or without a status_finder
FooConfig(sf) ==
    [fixup |-> Some(FooRE),
     prefix |-> Some(<<"X">>),
     postfix |-> Some(<<" ","-"," ","h","t","t","p",":","/","/","x","/","%","s">>),
     status_finder |-> sf]

\* that provider has resolved 42 from one of the titles "Issue #42: Fix the
\* thing - Foo Tracker" with whitespace between its words and around it
FooResolved(sf) ==
    /\ item.op = "getitem"
    /\ item.cfg = FooConfig(sf)
    /\ item.raw \in FooTitles
    /\ item.ticketnumber = Tn_42

FooResolvedWithStatus ==
    /\ FooResolved(TRUE)
    /\ item.status = Some(<<"o","p","e","n">>)

-----------------------------------------------------------------------------
\* the step is the construction of the proposal provider or a lookup
ProposalCall ==
    /\ refresh' # NoRefresh
    /\ refresh = NoRefresh \/ refresh'.n = refresh.n + 1

\* what the two versions of the index say about the proposal numbers
IndexTitle(blob, ticketnumber) ==
    IF blob = Blob_old
    THEN (IF ticketnumber = Tn_100 THEN Some(<<"D","i","r">>) ELSE None)
    ELSE (IF ticketnumber = Tn_100 THEN Some(<<"D","i","r"," ","v","2">>) ELSE Some(<<"V","o","t","e">>))

\* the record r of a lookup is the answer of index blob
AnsweredFrom(r, blob) ==
    LET t == IndexTitle(blob, r.ticketnumber)
    IN  IF t = None
        THEN r.raised = "IndexError" /\ r.why = "Proposal not found."
        ELSE r.raised = "none" /\ r.title = t[1]

\* one call of the proposal provider, seen against the index it held
StaleFallbackStep ==
    ProposalCall =>
        /\ (refresh'.fetched /\ ~refresh'.ok) =>
               /\ data' = data
               /\ expire' = expire
               /\ refresh'.raised \in {"none", "IndexError"}
               /\ refresh'.op = "__init__" => refresh'.raised = "none"
        /\ refresh'.op = "_gettitle" =>
               IF data' = None
               THEN /\ refresh'.raised = "IndexError"
                    /\ refresh'.why = "No proposal index available."
               ELSE AnsweredFrom(refresh', data'[1].text)
        /\ data # None => data' # None
        /\ (data # None /\ ~refresh'.ok) => data' = data

\* C16  Stale fallback of the proposal index.  A fetch that fails in update
\* leaves data and expire as they were and raises nothing; a lookup raises
\* IndexError for the missing index exactly while data is None; once an
\* index is loaded data never becomes None again and every lookup is
\* answered from the index held, which a failed fetch does not change.
C16_StaleFallback == [][StaleFallbackStep]_vars

\* one call of the proposal provider, seen against expire
RefreshStep ==
    ProposalCall =>
        /\ refresh'.fetched <=> now >= expire
        /\ (refresh'.fetched /\ refresh'.ok) =>
               /\ refresh'.got # None
               /\ data' = Some([text |-> refresh'.got[1].body,
                                 str |-> refresh'.got[1].charset])
               /\ expire' = now' + TTL
        /\ ~refresh'.fetched => (data' = data /\ expire' = expire)
        /\ (refresh'.fetched /\ refresh # NoRefresh) =>
               (refresh.lastOk # Never => now - refresh.lastOk >= TTL)

\* C17  Refresh only when expired.  At construction and on a lookup the
\* index is fetched if and only if the time is at or past expire; a fetch
\* that succeeds replaces data and sets expire to the time plus 7200 s; no
\* fetch is made within the 7200 s after a successful one.
C17_RefreshOnlyWhenExpired == [][RefreshStep]_vars

\* a lookup made some time after a successful fetch, within the two hours,
\* without a fetch
C17_Witness ==
    /\ refresh # NoRefresh
    /\ refresh.op = "_gettitle"
    /\ ~refresh.fetched
    /\ refresh.lastOk # Never
    /\ refresh.at > refresh.lastOk

-----------------------------------------------------------------------------
\* position i of the matches of call c was dropped as rate limited, was
\* looked up
DroppedIn(c, i) == \E j \in DOMAIN c.dropped : c.dropped[j] = i
LookedUpIn(c, i) == \E j \in DOMAIN c.resolved : c.resolved[j].i = i

\* the time at which call c, ended at time tEnd, checked position i against
\* lastSent: the clock moves during the lookups only, so it is the time at
\* which the next lookup from i on began, or the end of the call
CheckTime(c, i, tEnd) ==
    LET later == {j \in DOMAIN c.resolved : c.resolved[j].i >= i}
    IN  IF later = {} THEN tEnd
        ELSE c.resolved[CHOOSE j \in later : \A l \in later : j <= l].t

\* the time of the last reply for the match at position i of call c, made
\* earlier in the call or, as h tells, before it; or Never
LastEmission(c, i, h) ==
    LET earlier == {k \in DOMAIN c.replies :
                       c.replies[k].i < i /\ c.replies[k].m = c.matches[i]}
    IN  IF earlier = {} THEN HistGet(h, <<c.p, c.tgt, c.matches[i]>>).sent
        ELSE c.replies[CHOOSE k \in earlier : \A l \in earlier : l <= k].t

\* one call of doPrivmsg below the ceiling: each match it came to is
\* dropped exactly when its last reply is minRepeat seconds old or less
CooldownBoundaryStep ==
    (handled' = handled + 1 /\ Len(last'.matches) < Ceiling) =>
        \A i \in DOMAIN last'.matches :
            LET t0 == LastEmission(last', i, hist)
                t  == CheckTime(last', i, now')
            IN  /\ ~(DroppedIn(last', i) /\ LookedUpIn(last', i))
                /\ (DroppedIn(last', i) \/ LookedUpIn(last', i))
                       \/ last'.raised # "none"
                /\ DroppedIn(last', i) => (t0 # Never /\ t - t0 <= minRepeat)
                /\ LookedUpIn(last', i) => (t0 = Never \/ t - t0 > minRepeat)
                /\ \A k \in DOMAIN last'.replies :
                       last'.replies[k].i = i =>
                           (t0 = Never \/ last'.replies[k].t > t0 + minRepeat)

\* C21  Cooldown boundary is inclusive.  A match for (target, identifier)
\* whose last reply was at time t0 is dropped by doPrivmsg when it is
\* checked at a time t with t - t0 <= minRepeat, t0 + minRepeat included; it
\* is looked up, and a reply for it is given, only at times later than
\* t0 + minRepeat.
C21_CooldownBoundaryInclusive == [][CooldownBoundaryStep]_vars

\* a call made exactly minRepeat seconds after the reply for its match: no
\* lookup, the match dropped
C21_Witness ==
    /\ Called
    /\ last.resolved = <<>>
    /\ \E i \in DOMAIN last.matches :
           /\ DroppedIn(last, i)
           /\ HistGet(hist, <<last.p, last.tgt, last.matches[i]>>).sent # Never
           /\ now - HistGet(hist, <<last.p, last.tgt, last.matches[i]>>).sent
                  = minRepeat

-----------------------------------------------------------------------------
\* how many times m stands in the sequence ms
Count(ms, m) == Cardinality({i \in DOMAIN ms : ms[i] = m})

\* the bindings of p that apply to tgt and are default ones
DefaultApplying(p, tgt) == {i \in Applying(p, tgt) : channels[p][i].default}

\* how many candidates m the bindings S of p add for msg, each binding by
\* its own patterns
RECURSIVE CandidatesFrom(_, _, _, _)
CandidatesFrom(p, S, msg, m) ==
    IF S = {} THEN 0
    ELSE LET i  == CHOOSE x \in S : TRUE
             ch == channels[p][i]
         IN  (IF ch.default THEN Count(findall(defaultRE, msg), m) ELSE 0)
             + (IF ch.re # None THEN Count(findall(ch.re[1], msg), m) ELSE 0)
             + CandidatesFrom(p, S \ {i}, msg, m)

\* C22  Overlapping globs multiply candidates.  Every binding of the
\* provider whose glob matches the target adds the matches of its patterns
\* again: the bare identifier of "#9999" is a candidate once for each of the
\* k applying default bindings, and in general an identifier is a candidate
\* once for the own pattern and once for each pattern of each applying
\* binding that matches it.  All of them count toward the ceiling: a call
\* with Ceiling candidates or more looks nothing up and gives no reply.  At
\* most one candidate of an identifier gets a reply.  The message
\* "#9999 #1234" in a channel two default bindings apply to reaches the
\* ceiling and gives no reply.
C22_OverlappingGlobsMultiply ==
    Called =>
        /\ last.msg = Msg_bare =>
               Count(last.matches, Id_9999)
                   = Cardinality(DefaultApplying(last.p, last.tgt))
        /\ \A m \in {last.matches[i] : i \in DOMAIN last.matches} :
               /\ Count(last.matches, m)
                      = Count(OwnMatches(last.p, last.msg), m)
                        + CandidatesFrom(last.p, Applying(last.p, last.tgt),
                                         last.msg, m)
               /\ Cardinality(RepliesFor(last, m)) <= 1
        /\ Len(last.matches) >= Ceiling =>
               (last.replies = <<>> /\ last.resolved = <<>>)
        /\ ( /\ last.msg = Msg_two
             /\ Cardinality(DefaultApplying(last.p, last.tgt)) >= 2 )
           => /\ Len(last.matches) >= Ceiling
              /\ Count(last.matches, Id_9999) >= 2
              /\ Count(last.matches, Id_1234) >= 2
              /\ last.replies = <<>>

\* "#9999" in #debian-devel with '#debian-*' and '#deb*' bound as default:
\* two candidates for the one identifier, the first answered, the second
\* dropped
C22_Witness ==
    /\ Called
    /\ last.msg = Msg_bare
    /\ last.tgt = Chan_debian_devel
    /\ Cardinality(DefaultApplying(last.p, last.tgt)) = 2
    /\ last.matches = <<Id_9999, Id_9999>>
    /\ Len(last.replies) = 1
    /\ DroppedIn(last, 2)

====
